---- MODULE Spec2Model ----
(***************************************************************************)
(* A model of fiesta's EMLikelihood (src/fiesta/inference/likelihood.py):  *)
(* construction (__init__ with process_data), evaluate, and the caller's   *)
(* objects that the likelihood aliases or copies; and of the training      *)
(* functions of src/fiesta/train/neuralnets.py: train_step, train_loop,    *)
(* serialize and save_model.                                               *)
(*                                                                         *)
(* Conventions.                                                            *)
(*  - A filter name is a sequence of one-character strings, so that        *)
(*    str.replace(":", "_") is computed character by character.            *)
(*  - A dict is a function whose DOMAIN is its key set.                    *)
(*  - An (n,3) observation array is a sequence of rows [t, m, e]; the      *)
(*    1-D arrays the code slices out of it are sequences of numbers.       *)
(*  - numpy index arrays hold 0-based integers, as in the code.            *)
(*  - sigma is kept squared (sigma2 = mag_err^2 + error_budget^2): the     *)
(*    square root is not integral; compute_chisq only uses sigma ** 2.     *)
(***************************************************************************)
EXTENDS Integers, Sequences, FiniteSets, TLC

VARIABLES
    callerData,     \* the caller's raw data mapping: key -> (n,3) array
    callerFilters,  \* the caller's filter list object; self.filters is this object
    fixed_params,   \* the caller's fixed_params mapping; self.fixed_params is this object
    theta,          \* the caller's theta mapping passed to the last evaluate call
    args,           \* the scalar arguments of __init__
    self,           \* the attributes of the EMLikelihood object
    status,         \* "new", "constructed" or "raised" (the exception __init__ ended with)
    ghost,          \* the inputs as they were when __init__ / evaluate was entered
    evalOut,        \* outcome of the last evaluate call
    mutated,        \* whether the caller has modified the raw data after construction
    targs,          \* the arguments of train_loop: state, train_X, train_y, val_X, val_y
    config,         \* the caller's config object (a ConfigDict: key -> value)
    pc,             \* position of train_loop: "idle", "loop" or "returned"
    epoch,          \* the loop variable i of train_loop
    state,          \* the local variable state of train_loop (a TrainState)
    train_losses,   \* the list train_losses of train_loop
    val_losses,     \* the list val_losses of train_loop
    calls,          \* the number of train_step calls made so far
    serialized,     \* the outcomes of the serialize calls made so far, in order
    saved,          \* the outcome of the last save_model call
    files           \* the file system: file name -> pickled content

likelihoodVars == <<callerData, callerFilters, fixed_params, theta, args, self, status,
                    ghost, evalOut, mutated>>

trainVars == <<targs, config, pc, epoch, state, train_losses, val_losses, calls,
               serialized, saved, files>>

vars == <<likelihoodVars, trainVars>>

(***************************************************************************)
(* Bounds of the model.                                                    *)
(***************************************************************************)
MaxRows == 2        \* rows per observation array
MaxFilters == 2     \* length of the requested filter list
MaxEpochs == 2      \* config.nb_epochs
MaxSerialize == 2   \* serialize calls made on one trained state

(***************************************************************************)
(* Values.                                                                 *)
(***************************************************************************)
Inf == 999          \* np.inf / jnp.inf

G == <<"g">>
R == <<"r">>
X_Y == <<"X", "_", "Y">>
XcY == <<"X", ":", "Y">>

FilterNames == {G, R, X_Y}
DataKeys == {G, XcY}

EmptyDict == [k \in {} |-> 0]

Put(d, k, v) == [x \in (DOMAIN d) \cup {k} |-> IF x = k THEN v ELSE d[x]]

\* dict(zip(filters, [v] * len(filters)))
DictZip(flist, v) == [k \in {flist[i] : i \in DOMAIN flist} |-> v]

\* k.replace(":", "_")
Replace(k) == [i \in DOMAIN k |-> IF k[i] = ":" THEN "_" ELSE k[i]]

\* list.remove(x): removes the first occurrence of x
ListRemove(l, x) ==
    LET p == CHOOSE i \in DOMAIN l : l[i] = x /\ \A j \in 1..(i-1) : l[j] # x
    IN  [i \in 1..(Len(l) - 1) |-> IF i < p THEN l[i] ELSE l[i + 1]]

(***************************************************************************)
(* numpy helpers.                                                          *)
(***************************************************************************)
\* np.where(mask)[0]: the 0-based positions where the boolean array mask is
\* true, in increasing order
RECURSIVE WhereFrom(_, _)
WhereFrom(mask, i) ==
    IF i > Len(mask) THEN <<>>
    ELSE (IF mask[i] THEN <<i - 1>> ELSE <<>>) \o WhereFrom(mask, i + 1)

Where(mask) == WhereFrom(mask, 1)

\* the 1-based position a Python/numpy index i selects in an array of length n
PyPos(i, n) == IF i < 0 THEN n + i + 1 ELSE i + 1

\* arr[idx] for an integer index array idx (fancy indexing: a new array)
Take(arr, idx) == [k \in 1..Len(idx) |-> arr[PyPos(idx[k], Len(arr))]]

\* ~idx on an integer array: bitwise NOT of every element
BitNot(idx) == [k \in 1..Len(idx) |-> -idx[k] - 1]

Column(rows, c) == [i \in 1..Len(rows) |-> rows[i][c]]

(***************************************************************************)
(* process_data.                                                           *)
(***************************************************************************)
\* Faulty variant: processed_data = dict(data): the arrays stay the caller's
DeepCopyShallow(data) ==
    [k \in DOMAIN data |-> [owner |-> "caller", src |-> k, rows |-> data[k]]]

\* copy.deepcopy(data): every array of the result is a new object ("copy"),
\* not the caller's array ("caller"); src is the caller's key it came from.
DeepCopy(data) ==
    [k \in DOMAIN data |-> [owner |-> "copy", src |-> k, rows |-> data[k]]]

\* {k.replace(":", "_"): v for k, v in processed_data.items()}
NormalizeKeys(pd) ==
    [n \in {Replace(k) : k \in DOMAIN pd} |->
        pd[CHOOSE k \in DOMAIN pd : Replace(k) = n]]

\* times -= self.trigger_time, on the view processed_data[filt][:, 0]
ShiftTimes(rows, trig) ==
    [i \in 1..Len(rows) |-> [rows[i] EXCEPT !.t = rows[i].t - trig]]

\* Faulty variant: times <= self.tmax
WindowIdxClosedRight(times, tmin, tmax) ==
    Where([i \in 1..Len(times) |-> (times[i] > tmin) /\ (times[i] <= tmax)])

\* Faulty variant: times >= self.tmin
WindowIdxHalfOpen(times, tmin, tmax) ==
    Where([i \in 1..Len(times) |-> (times[i] >= tmin) /\ (times[i] < tmax)])

\* np.where((times > self.tmin) * (times < self.tmax))[0]
WindowIdx(times, tmin, tmax) ==
    Where([i \in 1..Len(times) |-> (times[i] > tmin) /\ (times[i] < tmax)])

\* np.where(mag_err != np.inf)[0]
NoInfIdx(mag_err) ==
    Where([i \in 1..Len(mag_err) |-> mag_err[i] # Inf])

\* the index array the non-detections are taken with: ~idx_no_inf
NondetIdx(idx_no_inf) == BitNot(idx_no_inf)

\* One iteration of the loop body for a filter found in the data (lines 162-175).
\* st holds self.filters, processed_data, the caller's arrays and the dicts of self.
ProcessFilter(filt, st, a) ==
    LET arr        == st.processed[filt]
        shifted    == ShiftTimes(arr.rows, a.trigger_time)
        idx        == WindowIdx(Column(shifted, "t"), a.tmin, a.tmax)
        times      == Take(Column(shifted, "t"), idx)
        mag        == Take(Column(shifted, "m"), idx)
        mag_err    == Take(Column(shifted, "e"), idx)
        idx_no_inf == NoInfIdx(mag_err)
        idx_nondet == NondetIdx(idx_no_inf)
    IN  [st EXCEPT
            !.processed    = [@ EXCEPT ![filt].rows = shifted],
            !.caller       = IF arr.owner = "caller"
                             THEN [@ EXCEPT ![arr.src] = shifted]
                             ELSE @,
            !.window       = Put(@, filt, [times |-> times, mag |-> mag, mag_err |-> mag_err]),
            !.times_det    = Put(@, filt, Take(times, idx_no_inf)),
            !.mag_det      = Put(@, filt, Take(mag, idx_no_inf)),
            !.mag_err      = Put(@, filt, Take(mag_err, idx_no_inf)),
            !.times_nondet = Put(@, filt, Take(times, idx_nondet)),
            !.mag_nondet   = Put(@, filt, Take(mag, idx_nondet))]

\* for filt in self.filters: the list iterator holds a position i into the
\* list object; self.filters.remove(filt) shortens that same list, and the
\* iterator then moves on to position i + 1 of the shortened list.
RECURSIVE ProcessLoop(_, _, _)
ProcessLoop(i, st, a) ==
    IF i > Len(st.filters) THEN st
    ELSE LET filt == st.filters[i] IN
         IF filt \notin DOMAIN st.processed
         THEN ProcessLoop(i + 1, [st EXCEPT !.filters = ListRemove(@, filt)], a)
         ELSE ProcessLoop(i + 1, ProcessFilter(filt, st, a), a)

process_data(flist, data, a) ==
    ProcessLoop(1,
        [filters      |-> flist,
         processed    |-> NormalizeKeys(DeepCopy(data)),
         caller       |-> data,
         window       |-> EmptyDict,
         times_det    |-> EmptyDict,
         mag_det      |-> EmptyDict,
         mag_err      |-> EmptyDict,
         times_nondet |-> EmptyDict,
         mag_nondet   |-> EmptyDict],
        a)

(***************************************************************************)
(* __init__.                                                               *)
(* error_budget and detection_limit arrive as a scalar, a dict, or (for    *)
(* detection_limit) None: [kind |-> "scalar" | "dict" | "none", val |-> _].*)
(***************************************************************************)
Scalar(v) == [kind |-> "scalar", val |-> v]
Dict(d) == [kind |-> "dict", val |-> d]
None == [kind |-> "none", val |-> 0]

\* lines 52-56: a scalar error budget becomes a dict over the requested filters
NormalizeErrorBudget(eb, flist) ==
    IF eb.kind = "scalar" THEN DictZip(flist, eb.val) ELSE eb.val

\* lines 58-67: a scalar limit becomes a dict over the requested filters,
\* None becomes infinity for every requested filter
NormalizeDetectionLimit(dl, flist) ==
    IF dl.kind = "scalar" THEN DictZip(flist, dl.val)
    ELSE IF dl.kind = "none" THEN DictZip(flist, Inf)
    ELSE dl.val

\* lines 78-81: the flag is forced on when the dict times_nondet has no entry
IgnoreNondetections(given, times_nondet) ==
    IF Cardinality(DOMAIN times_nondet) = 0 THEN TRUE ELSE given

\* Faulty variant: the systematic term is left out of the combined uncertainty
Sigma2NoBudget(mag_err, budget) ==
    [i \in 1..Len(mag_err) |-> mag_err[i] * mag_err[i]]

\* mag_err[filt] ** 2 + error_budget[filt] ** 2 (the square of line 86's sigma)
Sigma2(mag_err, budget) ==
    [i \in 1..Len(mag_err) |-> mag_err[i] * mag_err[i] + budget * budget]

\* Faulty variant: the budget of the first filter of the list is used for
\* every filter
RECURSIVE SigmaLoopFirstBudget(_, _, _, _, _)
SigmaLoopFirstBudget(i, flist, mag_err, error_budget, sigma2) ==
    IF i > Len(flist) THEN [raised |-> FALSE, sigma2 |-> sigma2]
    ELSE IF flist[i] \notin DOMAIN mag_err \/ flist[i] \notin DOMAIN error_budget
         THEN [raised |-> TRUE, sigma2 |-> sigma2]
         ELSE SigmaLoopFirstBudget(i + 1, flist, mag_err, error_budget,
                        Put(sigma2, flist[i],
                            Sigma2(mag_err[flist[i]], error_budget[flist[1]])))

\* lines 84-86: for filt in self.filters; a filter without an entry in
\* self.mag_err or self.error_budget ends the loop with KeyError.
RECURSIVE SigmaLoop(_, _, _, _, _)
SigmaLoop(i, flist, mag_err, error_budget, sigma2) ==
    IF i > Len(flist) THEN [raised |-> FALSE, sigma2 |-> sigma2]
    ELSE IF flist[i] \notin DOMAIN mag_err \/ flist[i] \notin DOMAIN error_budget
         THEN [raised |-> TRUE, sigma2 |-> sigma2]
         ELSE SigmaLoop(i + 1, flist, mag_err, error_budget,
                        Put(sigma2, flist[i],
                            Sigma2(mag_err[flist[i]], error_budget[flist[i]])))

\* The whole of __init__ on the caller's list flist and data mapping data:
\* the attributes of self, the caller's list and arrays afterwards, and
\* whether the constructor returned or raised.
EMLikelihoodInit(flist, data, a) ==
    LET error_budget    == NormalizeErrorBudget(a.error_budget, flist)
        detection_limit == NormalizeDetectionLimit(a.detection_limit, flist)
        pd              == process_data(flist, data, a)
        sig             == SigmaLoop(1, pd.filters, pd.mag_err, error_budget, EmptyDict)
    IN  [raised  |-> sig.raised,
         filters |-> pd.filters,
         caller  |-> pd.caller,
         window  |-> pd.window,
         obj     |-> [trigger_time         |-> a.trigger_time,
                      tmin                 |-> a.tmin,
                      tmax                 |-> a.tmax,
                      ignore_nondetections |-> IgnoreNondetections(a.ignore_nondetections,
                                                                   pd.times_nondet),
                      error_budget         |-> error_budget,
                      detection_limit      |-> detection_limit,
                      times_det            |-> pd.times_det,
                      mag_det              |-> pd.mag_det,
                      mag_err              |-> pd.mag_err,
                      times_nondet         |-> pd.times_nondet,
                      mag_nondet           |-> pd.mag_nondet,
                      sigma2               |-> sig.sigma2]]

NoObject == [trigger_time |-> 0, tmin |-> 0, tmax |-> 0, ignore_nondetections |-> FALSE,
             error_budget |-> EmptyDict, detection_limit |-> EmptyDict,
             times_det |-> EmptyDict, mag_det |-> EmptyDict, mag_err |-> EmptyDict,
             times_nondet |-> EmptyDict, mag_nondet |-> EmptyDict, sigma2 |-> EmptyDict]

NoEval == [status |-> "none", merged |-> EmptyDict, branch |-> EmptyDict, chisq |-> EmptyDict,
           gaussprob_total |-> 0, result |-> 0]

NoGhost == [requested |-> <<>>, data |-> EmptyDict, window |-> EmptyDict,
            theta |-> EmptyDict, fixed |-> EmptyDict]

\* likelihood = EMLikelihood(model, filters, data, ...)
Construct ==
    /\ status = "new"
    /\ LET r == EMLikelihoodInit(callerFilters, callerData, args) IN
        /\ status' = IF r.raised THEN "raised" ELSE "constructed"
        /\ self' = r.obj
        /\ callerFilters' = r.filters
        /\ callerData' = r.caller
        /\ ghost' = [ghost EXCEPT !.requested = callerFilters,
                                  !.data = callerData,
                                  !.window = r.window]
    /\ UNCHANGED <<fixed_params, theta, args, evalOut, mutated>>
    /\ UNCHANGED trainVars

(***************************************************************************)
(* Floating point values of the likelihood: integers, in units of 1/4,     *)
(* with the IEEE values +inf (Inf), -inf (NegInf) and NaN.                 *)
(***************************************************************************)
NegInf == 0 - Inf
NaN == 998

IsFinite(x) == x \notin {Inf, NegInf, NaN}

XAdd(x, y) ==
    IF x = NaN \/ y = NaN THEN NaN
    ELSE IF (x = Inf /\ y = NegInf) \/ (x = NegInf /\ y = Inf) THEN NaN
    ELSE IF x = Inf \/ y = Inf THEN Inf
    ELSE IF x = NegInf \/ y = NegInf THEN NegInf
    ELSE x + y

XNeg(x) == IF x = NaN THEN NaN ELSE IF x = Inf THEN NegInf ELSE IF x = NegInf THEN Inf ELSE 0 - x

\* n / d for n >= 0, d >= 0: 0/0 is NaN, n/0 is +inf
XDiv(n, d) == IF d = 0 THEN (IF n = 0 THEN NaN ELSE Inf) ELSE n \div d

\* jnp.sum of an array
RECURSIVE XSumFrom(_, _)
XSumFrom(arr, i) == IF i > Len(arr) THEN 0 ELSE XAdd(arr[i], XSumFrom(arr, i + 1))

\* Faulty variant: a reduction that is undefined (NaN) over an empty array
XSumEmptyNaN(arr) == IF Len(arr) = 0 THEN NaN ELSE XSumFrom(arr, 1)

XSum(arr) == XSumFrom(arr, 1)

\* jnp.sum over the leaves of a dict of scalars (ravel_pytree, then sum)
RECURSIVE XSumDict(_, _)
XSumDict(d, keys) ==
    IF keys = {} THEN 0
    ELSE LET k == CHOOSE x \in keys : TRUE IN XAdd(d[k], XSumDict(d, keys \ {k}))

(***************************************************************************)
(* The surrogate and the helpers of fiesta.utils, which evaluate calls.    *)
(***************************************************************************)
LD == "luminosity_distance"
E0 == "log10_E0"
ParamNames == {LD, E0}

\* self.model.times
ModelTimes == <<0, 2, 4>>

\* self.model.predict(theta): an absolute magnitude curve over model.times
\* for every filter of the model
Predict(th, model_filters) ==
    [f \in model_filters |->
        [k \in 1..Len(ModelTimes) |->
            16 + (IF f = G THEN 0 ELSE 2) + 2 * th[E0] + 2 * (k - 1)]]

\* mag_app_from_mag_abs(mag_abs, luminosity_distance): adds the distance modulus
mag_app_from_mag_abs(mag_abs, d) == [k \in 1..Len(mag_abs) |-> mag_abs[k] + 2 * d]

\* jnp.interp(t, xp, fp) at one point: piecewise linear, clamped at both ends
Interp1(t, xp, fp) ==
    IF t <= xp[1] THEN fp[1]
    ELSE IF t >= xp[Len(xp)] THEN fp[Len(xp)]
    ELSE LET k == CHOOSE j \in 1..(Len(xp) - 1) : xp[j] <= t /\ t < xp[j + 1]
         IN  fp[k] + ((fp[k + 1] - fp[k]) * (t - xp[k])) \div (xp[k + 1] - xp[k])

Interp(ts, xp, fp) == [i \in 1..Len(ts) |-> Interp1(ts[i], xp, fp)]

\* truncated_gaussian(mag_det, sigma, mag_est, lim), one row: the Gaussian
\* log density of the residual, normalised, minus the log of the mass below lim
TruncatedGaussian(d, s2, est, lim) ==
    XAdd(XNeg(XDiv(2 * (d - est) * (d - est), s2)),
         0 - (s2 + 3) + (IF lim - est >= 3 THEN 0 ELSE 3 - (lim - est)))

(***************************************************************************)
(* evaluate.                                                               *)
(***************************************************************************)
\* Faulty variant: {**self.fixed_params, **theta}: the sampled value wins
MergeParamsThetaWins(th, fixed) ==
    [merged |-> [k \in (DOMAIN th) \cup (DOMAIN fixed) |->
                    IF k \in DOMAIN th THEN th[k] ELSE fixed[k]],
     theta  |-> th,
     fixed  |-> fixed]

\* Faulty variant: theta.update(self.fixed_params): the merge is written into the
\* caller's mapping
MergeParamsInPlace(th, fixed) ==
    LET m == [k \in (DOMAIN th) \cup (DOMAIN fixed) |->
                IF k \in DOMAIN fixed THEN fixed[k] ELSE th[k]]
    IN  [merged |-> m, theta |-> m, fixed |-> fixed]

\* line 104: theta = {**theta, **self.fixed_params}. The result of the merge
\* and the caller's two mappings after it.
MergeParams(th, fixed) ==
    [merged |-> [k \in (DOMAIN th) \cup (DOMAIN fixed) |->
                    IF k \in DOMAIN fixed THEN fixed[k] ELSE th[k]],
     theta  |-> th,
     fixed  |-> fixed]

\* lines 201-212: - 0.5 * jnp.sum((mag_det - mag_est) ** 2 / sigma ** 2), in units of 1/4
compute_chisq(mag_est, mag_det, sigma2, lim) ==
    XNeg(XSum([i \in 1..Len(mag_det) |->
        XDiv(2 * (mag_det[i] - mag_est[i]) * (mag_det[i] - mag_est[i]), sigma2[i])]))

\* lines 214-222: jnp.sum(truncated_gaussian(mag_det, sigma, mag_est, lim))
compute_chisq_trunc(mag_est, mag_det, sigma2, lim) ==
    XSum([i \in 1..Len(mag_det) |->
        TruncatedGaussian(mag_det[i], sigma2[i], mag_est[i], lim)])

\* Faulty variant: the two branches of the cond exchanged
UseUntruncatedSwapped(lim) == lim # Inf

\* line 196: the predicate of jax.lax.cond
UseUntruncated(lim) == lim = Inf

\* lines 196-199
get_chisq_filt(mag_est, mag_det, sigma2, lim) ==
    IF UseUntruncated(lim)
    THEN [branch |-> "compute_chisq",
          val    |-> compute_chisq(mag_est, mag_det, sigma2, lim)]
    ELSE [branch |-> "compute_chisq_trunc",
          val    |-> compute_chisq_trunc(mag_est, mag_det, sigma2, lim)]

\* Faulty variant: the commented-out lines 125-128: a term for every non-detection row
GaussprobTotalNondet(obj, mag_app_interp) ==
    XSumDict([f \in DOMAIN obj.mag_nondet |-> 0 - Len(obj.mag_nondet[f])],
             DOMAIN obj.mag_nondet)

\* line 130: the non-detection term of the total
GaussprobTotal(obj, mag_app_interp) == 0

\* lines 104-135. jax.tree.map raises ValueError when its dicts do not have
\* the same keys; a missing parameter name raises KeyError.
evaluate(obj, th, fixed, model_filters) ==
    LET mp     == MergeParams(th, fixed)
        merged == mp.merged
    IN  IF ~(ParamNames \subseteq DOMAIN merged)
        THEN [NoEval EXCEPT !.status = "KeyError", !.merged = merged]
        ELSE
        LET mag_abs == Predict(merged, model_filters)
            mag_app == [f \in DOMAIN mag_abs |-> mag_app_from_mag_abs(mag_abs[f], merged[LD])]
        IN  IF \/ DOMAIN obj.times_det # DOMAIN mag_app
               \/ DOMAIN obj.times_det # DOMAIN obj.mag_det
               \/ DOMAIN obj.times_det # DOMAIN obj.sigma2
               \/ DOMAIN obj.times_det # DOMAIN obj.detection_limit
            THEN [NoEval EXCEPT !.status = "ValueError", !.merged = merged]
            ELSE
            LET mag_app_interp ==
                    [f \in DOMAIN obj.times_det |->
                        Interp(obj.times_det[f], ModelTimes, mag_app[f])]
                cond ==
                    [f \in DOMAIN mag_app_interp |->
                        get_chisq_filt(mag_app_interp[f], obj.mag_det[f],
                                       obj.sigma2[f], obj.detection_limit[f])]
                chisq == [f \in DOMAIN cond |-> cond[f].val]
                chisq_total == XSumDict(chisq, DOMAIN chisq)
                gaussprob_total == GaussprobTotal(obj, mag_app_interp)
            IN  [status          |-> "ok",
                 merged          |-> merged,
                 branch          |-> [f \in DOMAIN cond |-> cond[f].branch],
                 chisq           |-> chisq,
                 gaussprob_total |-> gaussprob_total,
                 result          |-> XAdd(chisq_total, gaussprob_total)]

\* likelihood.evaluate(th), th one of the parameter mappings the sampler proposes
Evaluate(th) ==
    /\ status = "constructed"
    /\ LET mp == MergeParams(th, fixed_params) IN
        /\ theta' = mp.theta
        /\ fixed_params' = mp.fixed
    /\ evalOut' = evaluate(self, th, fixed_params, args.model_filters)
    /\ ghost' = [ghost EXCEPT !.theta = th, !.fixed = fixed_params]
    /\ UNCHANGED <<callerData, callerFilters, args, self, status, mutated>>
    /\ UNCHANGED trainVars

(***************************************************************************)
(* The caller.                                                             *)
(***************************************************************************)
\* data[k][0, :] = ...: the caller overwrites the first row of one of its arrays
MutateCallerData(k) ==
    /\ status # "new"
    /\ ~mutated
    /\ k \in DOMAIN callerData
    /\ Len(callerData[k]) > 0
    /\ callerData' = [callerData EXCEPT ![k][1] =
                         [t |-> @.t + 1, m |-> @.m + 1, e |-> IF @.e = Inf THEN 1 ELSE Inf]]
    /\ mutated' = TRUE
    /\ UNCHANGED <<callerFilters, fixed_params, theta, args, self, status, ghost, evalOut>>
    /\ UNCHANGED trainVars

(***************************************************************************)
(* Training (src/fiesta/train/neuralnets.py).                              *)
(*  - A TrainState is [step, params]; the network has one weight, so       *)
(*    apply_fn(params, x) = params * x on scalars.                         *)
(*  - A batch is a pair of sequences x_batched, y_batched of one length.   *)
(*  - Losses are integers in units of 1/2.                                 *)
(*  - An optional array argument is None or Array(a).                      *)
(***************************************************************************)
Array(a) == [kind |-> "array", val |-> a]

ACT_FUNC == "act_func"
NB_EPOCHS == "nb_epochs"

\* sum of a sequence of integers
RECURSIVE SumFrom(_, _)
SumFrom(arr, k) == IF k > Len(arr) THEN 0 ELSE arr[k] + SumFrom(arr, k + 1)

\* jnp.mean over the batch (rounded towards minus infinity)
Mean(arr) == SumFrom(arr, 1) \div Len(arr)

Sign(x) == IF x > 0 THEN 1 ELSE IF x < 0 THEN 0 - 1 ELSE 0

\* state.apply_fn({'params': params}, x)
apply_fn(params, x) == params * x

\* squared_error(x, y) = jnp.inner(y - pred, y - pred) / 2.0, in units of 1/2
squared_error(params, x, y) == (y - apply_fn(params, x)) * (y - apply_fn(params, x))

\* loss_fn(params): the mean of the squared error over the batch
loss_fn(params, x_batched, y_batched) ==
    Mean([k \in 1..Len(x_batched) |-> squared_error(params, x_batched[k], y_batched[k])])

\* the gradient of loss_fn with respect to params
grad_fn(params, x_batched, y_batched) ==
    Mean([k \in 1..Len(x_batched) |->
             (0 - 2) * (y_batched[k] - apply_fn(params, x_batched[k])) * x_batched[k]])

\* lines 174-196
apply_model(st, x_batched, y_batched) ==
    [loss  |-> loss_fn(st.params, x_batched, y_batched),
     grads |-> grad_fn(st.params, x_batched, y_batched)]

\* state.apply_gradients(grads=grads): one optimizer step against the
\* gradient, and the step counter advanced
apply_gradients(st, grads) ==
    [step |-> st.step + 1, params |-> st.params - Sign(grads)]

\* jnp.zeros_like(train_loss)
zeros_like(x) == 0

\* lines 199-230
train_step(st, train_X, train_y, val_X, val_y) ==
    LET train    == apply_model(st, train_X, train_y)
        val_loss == IF val_X.kind # "none"
                    THEN apply_model(st, val_X.val, val_y.val).loss
                    ELSE zeros_like(train.loss)
    IN  [state      |-> apply_gradients(st, train.grads),
         train_loss |-> train.loss,
         val_loss   |-> val_loss]

\* Faulty variant: the loop runs once more than range(n) does
InRangeInclusive(k, n) == k <= n

\* line 244: whether range(config.nb_epochs) yields the index k
InRange(k, n) == k < n

\* lines 244-249: one pass of the loop body of train_loop
TrainStep ==
    /\ pc = "loop"
    /\ InRange(epoch, config[NB_EPOCHS])
    /\ LET r == train_step(state, targs.train_X, targs.train_y, targs.val_X, targs.val_y) IN
        /\ state' = r.state
        /\ train_losses' = Append(train_losses, r.train_loss)
        /\ val_losses' = Append(val_losses, r.val_loss)
    /\ epoch' = epoch + 1
    /\ calls' = calls + 1
    /\ UNCHANGED <<targs, config, pc, serialized, saved, files>>
    /\ UNCHANGED likelihoodVars

\* lines 244, 257-262: range is exhausted and train_loop returns
\* state, train_losses, val_losses
TrainReturn ==
    /\ pc = "loop"
    /\ ~InRange(epoch, config[NB_EPOCHS])
    /\ pc' = "returned"
    /\ UNCHANGED <<targs, config, epoch, state, train_losses, val_losses, calls,
                   serialized, saved, files>>
    /\ UNCHANGED likelihoodVars

\* flax.serialization.to_state_dict(state)["params"]
to_state_dict_params(st) == st.params

\* c without the key k
DictDel(c, k) == [x \in DOMAIN c \ {k} |-> c[x]]

NoSerialized == [params |-> 0, config |-> EmptyDict]

\* lines 264-288. cfg is None or Dict(c) with c the content of the caller's
\* config object; del config["act_func"] is made in that object, raises
\* TypeError on None and KeyError when the key is not there. The result is
\* the outcome, the returned dict, and the caller's object afterwards.
serialize(st, cfg) ==
    LET params == to_state_dict_params(st) IN
        IF cfg.kind = "none"
        THEN [status |-> "TypeError", out |-> NoSerialized, config |-> cfg]
        ELSE IF ACT_FUNC \notin DOMAIN cfg.val
        THEN [status |-> "KeyError", out |-> NoSerialized, config |-> cfg]
        ELSE LET c == DictDel(cfg.val, ACT_FUNC) IN
             [status |-> "ok",
              out    |-> [params |-> params, config |-> c],
              config |-> Dict(c)]

\* serialize(state, config) or serialize(state): the caller passes its config
\* object or leaves the argument out
Serialize(pass) ==
    /\ pc = "returned"
    /\ Len(serialized) < MaxSerialize
    /\ LET r == serialize(state, IF pass THEN Dict(config) ELSE None) IN
        /\ serialized' = Append(serialized,
                                [status |-> r.status, out |-> r.out, passed |-> pass,
                                 before |-> config])
        /\ config' = IF pass THEN r.config.val ELSE config
    /\ UNCHANGED <<targs, pc, epoch, state, train_losses, val_losses, calls, saved, files>>
    /\ UNCHANGED likelihoodVars

\* file names, as sequences of characters
PKL == <<".", "p", "k", "l">>
PICKLE == <<".", "p", "i", "c", "k", "l", "e">>
DefaultOutName ==
    <<"m", "y", "_", "f", "l", "a", "x", "_", "m", "o", "d", "e", "l">> \o PKL
OutNames == {DefaultOutName, <<"m">> \o PKL, <<"m">> \o PICKLE,
             <<"m", ".", "t", "x", "t">>, <<"m">>}

\* str.endswith
EndsWith(s, suffix) ==
    /\ Len(s) >= Len(suffix)
    /\ SubSeq(s, Len(s) - Len(suffix) + 1, Len(s)) = suffix

\* line 306: the condition under which save_model raises ValueError
BadExtension(out_name) == ~EndsWith(out_name, PKL) \/ ~EndsWith(out_name, PICKLE)

NoSaved == [status |-> "none", out_name |-> <<>>]

\* lines 291-311: the outcome, the caller's config object and the file
\* system after save_model(st, cfg, out_name)
save_model(st, cfg, out_name, fs) ==
    IF BadExtension(out_name)
    THEN [status |-> "ValueError", config |-> cfg, files |-> fs, serialize |-> <<>>]
    ELSE LET r == serialize(st, cfg) IN
         [status    |-> r.status,
          config    |-> r.config,
          files     |-> IF r.status = "ok" THEN Put(fs, out_name, r.out) ELSE fs,
          serialize |-> <<[status |-> r.status, out |-> r.out, passed |-> TRUE,
                           before |-> cfg.val]>>]

\* save_model(state, config, out_name), out_name left at its default or given
SaveModel(out_name) ==
    /\ pc = "returned"
    /\ Len(serialized) < MaxSerialize
    /\ LET r == save_model(state, Dict(config), out_name, files) IN
        /\ saved' = [status |-> r.status, out_name |-> out_name]
        /\ config' = r.config.val
        /\ files' = r.files
        /\ serialized' = serialized \o r.serialize
    /\ UNCHANGED <<targs, pc, epoch, state, train_losses, val_losses, calls>>
    /\ UNCHANGED likelihoodVars

\* the training variables of a program that does not train
TrainIdle ==
    /\ targs = [state |-> [step |-> 0, params |-> 0], train_X |-> <<>>, train_y |-> <<>>,
                val_X |-> None, val_y |-> None]
    /\ config = EmptyDict
    /\ pc = "idle"
    /\ epoch = 0
    /\ state = targs.state
    /\ train_losses = <<>>
    /\ val_losses = <<>>
    /\ calls = 0
    /\ serialized = <<>>
    /\ saved = NoSaved
    /\ files = EmptyDict

(***************************************************************************)
(* Inputs.                                                                 *)
(***************************************************************************)
\* all lists without repetition of at most n names
ListsUpTo(names, n) ==
    UNION {{l \in [1..k -> names] : \A i, j \in 1..k : i # j => l[i] # l[j]} : k \in 0..n}

NamesOf(flist) == {flist[i] : i \in DOMAIN flist}

\* observation arrays of at most n rows; row i has magnitude 20 + i, so
\* that every row of an array is told apart from the others
ArraysUpTo(n, times, errs) ==
    UNION {{[i \in 1..k |-> [t |-> ts[i], m |-> 20 + i, e |-> es[i]]] :
                ts \in [1..k -> times], es \in [1..k -> errs]} : k \in 0..n}

XArray == <<[t |-> 2, m |-> 22, e |-> 1]>>

DataSetsOf(garrays) ==
    {d \in UNION {[S -> garrays \cup {XArray}] : S \in SUBSET DataKeys} :
        XcY \in DOMAIN d => d[XcY] = XArray}

TypeInit ==
    /\ TrainIdle
    /\ self = NoObject
    /\ status = "new"
    /\ ghost = NoGhost
    /\ evalOut = NoEval
    /\ theta = EmptyDict
    /\ mutated = FALSE

\* Construction inputs in breadth: filter lists, arrays, trigger time, flag.
InitData ==
    /\ TypeInit
    /\ callerData \in DataSetsOf(ArraysUpTo(MaxRows, {1, 2, 3}, {1, Inf}))
    /\ callerFilters \in ListsUpTo(FilterNames, MaxFilters)
    /\ fixed_params = (LD :> 1)
    /\ \E trig \in {0, 1}, ign \in BOOLEAN :
        args = [trigger_time |-> trig, tmin |-> 0, tmax |-> 2,
                error_budget |-> Scalar(1), detection_limit |-> None,
                ignore_nondetections |-> ign,
                fixed_params |-> fixed_params,
                model_filters |-> NamesOf(callerFilters),
                proposals |-> {(E0 :> 1)}]

\* Evaluation inputs in breadth: error budgets, detection limits, fixed and
\* sampled parameters, with the default window (0, 14) and trigger time 0.
InitEval ==
    /\ TypeInit
    /\ callerData \in DataSetsOf(ArraysUpTo(MaxRows, {1}, {0, 1, Inf}))
    /\ callerFilters \in ListsUpTo({G, X_Y}, MaxFilters)
    /\ fixed_params \in {EmptyDict, (LD :> 1), (LD :> 2) @@ (E0 :> 1)}
    /\ \E eb \in {Scalar(0), Scalar(1), Dict((G :> 1) @@ (X_Y :> 0))},
          dl \in {None, Scalar(Inf), Scalar(23), Dict((G :> Inf) @@ (X_Y :> 23))},
          ign \in BOOLEAN :
        args = [trigger_time |-> 0, tmin |-> 0, tmax |-> 14,
                error_budget |-> eb, detection_limit |-> dl,
                ignore_nondetections |-> ign,
                fixed_params |-> fixed_params,
                model_filters |-> NamesOf(callerFilters),
                proposals |-> {(E0 :> 1), (E0 :> 2) @@ (LD :> 2), (LD :> 1)}]

Next ==
    \/ Construct
    \/ \E th \in args.proposals : Evaluate(th)
    \/ \E k \in DataKeys : MutateCallerData(k)

Spec == InitData /\ [][Next]_vars

SpecEval == InitEval /\ [][Next]_vars

\* the likelihood variables of a program that builds no likelihood
LikelihoodIdle ==
    /\ self = NoObject
    /\ status = "new"
    /\ ghost = NoGhost
    /\ evalOut = NoEval
    /\ theta = EmptyDict
    /\ mutated = FALSE
    /\ callerData = EmptyDict
    /\ callerFilters = <<>>
    /\ fixed_params = EmptyDict
    /\ args = [trigger_time |-> 0, tmin |-> 0, tmax |-> 0,
               error_budget |-> None, detection_limit |-> None,
               ignore_nondetections |-> FALSE, fixed_params |-> EmptyDict,
               model_filters |-> {}, proposals |-> {}]

\* the batches of a training run: inputs 1 and 2, targets around them
Batches == {[X |-> <<1>>, y |-> <<2>>], [X |-> <<1, 2>>, y |-> <<3, 2>>],
            [X |-> <<2>>, y |-> <<0>>]}

\* the configs a caller passes: nb_epochs set, act_func set or not
Configs ==
    {(NB_EPOCHS :> n) : n \in 0..MaxEpochs}
        \cup {(NB_EPOCHS :> n) @@ (ACT_FUNC :> "relu") : n \in 0..MaxEpochs}

\* train_loop(state, config, train_X, train_y, val_X, val_y) has been
\* entered: the lists are empty and the loop is about to start
InitTrain ==
    /\ LikelihoodIdle
    /\ \E p \in {0, 1}, b \in Batches, v \in {None} \cup {Array(c.X) : c \in Batches} :
        targs = [state |-> [step |-> 0, params |-> p],
                 train_X |-> b.X, train_y |-> b.y,
                 val_X |-> v,
                 val_y |-> IF v.kind = "none" THEN None
                           ELSE Array((CHOOSE c \in Batches : c.X = v.val).y)]
    /\ config \in Configs
    /\ pc = "loop"
    /\ epoch = 0
    /\ state = targs.state
    /\ train_losses = <<>>
    /\ val_losses = <<>>
    /\ calls = 0
    /\ serialized = <<>>
    /\ saved = NoSaved
    /\ files = EmptyDict

NextTrain ==
    \/ TrainStep
    \/ TrainReturn
    \/ \E pass \in BOOLEAN : Serialize(pass)
    \/ \E out_name \in OutNames : SaveModel(out_name)

\* train_loop is sequential code whose loop body and return always complete,
\* so a step that stays possible is taken
SpecTrain ==
    InitTrain /\ [][NextTrain]_vars /\ WF_vars(TrainStep) /\ WF_vars(TrainReturn)

(***************************************************************************)
(* Vocabulary of the properties.                                           *)
(***************************************************************************)
\* self.filters is the caller's list object (line 46)
ActiveFilters == NamesOf(callerFilters)

Requested == NamesOf(ghost.requested)

\* the keys of the data handed to __init__, after ":" -> "_"
NormalizedKeys == {Replace(k) : k \in DOMAIN ghost.data}

\* the rows the caller handed in for filter f
RawRows(f) == ghost.data[CHOOSE k \in DOMAIN ghost.data : Replace(k) = f]

\* the filters whose loop body ran
Processed == DOMAIN ghost.window

\* the elements of arr at the positions where keep is true, in order
RECURSIVE KeepWhere(_, _)
KeepWhere(arr, keep) ==
    IF arr = <<>> THEN <<>>
    ELSE (IF Head(keep) THEN <<Head(arr)>> ELSE <<>>) \o KeepWhere(Tail(arr), Tail(keep))

\* the (time, magnitude) pairs of two parallel arrays
Pairs(times, mag) == {<<times[i], mag[i]>> : i \in 1..Len(times)}

\* C1 (as claimed): construction never raises, and afterwards the active
\* filters are exactly the requested filters present in the normalized data,
\* each with entries in times_det, mag_det, mag_err and sigma.
C1_SoftDrop ==
    status # "new" =>
        /\ status = "constructed"
        /\ ActiveFilters = Requested \cap NormalizedKeys
        /\ \A f \in ActiveFilters :
            /\ f \in DOMAIN self.times_det
            /\ f \in DOMAIN self.mag_det
            /\ f \in DOMAIN self.mag_err
            /\ f \in DOMAIN self.sigma2

\* C2 (as claimed): for every processed filter the windowed rows are
\* partitioned: the detection arrays hold exactly the windowed rows with a
\* finite error, the non-detection arrays exactly those with an infinite
\* error (compared here without regard to order), and no row is in both or
\* in neither.
C2_Partition ==
    status = "constructed" =>
        \A f \in Processed :
            LET w      == ghost.window[f]
                finite == [i \in 1..Len(w.mag_err) |-> w.mag_err[i] # Inf]
                infin  == [i \in 1..Len(w.mag_err) |-> w.mag_err[i] = Inf]
            IN  /\ self.times_det[f] = KeepWhere(w.times, finite)
                /\ self.mag_det[f] = KeepWhere(w.mag, finite)
                /\ self.mag_err[f] = KeepWhere(w.mag_err, finite)
                /\ Len(self.times_nondet[f]) = Len(KeepWhere(w.times, infin))
                /\ Len(self.mag_nondet[f]) = Len(KeepWhere(w.mag, infin))
                /\ Pairs(self.times_nondet[f], self.mag_nondet[f])
                     = Pairs(KeepWhere(w.times, infin), KeepWhere(w.mag, infin))

\* C3 (as claimed): if no windowed row of any active filter has an infinite
\* error, ignore_nondetections is True after construction, whatever was passed.
C3_ForcedIgnore ==
    (/\ status = "constructed"
     /\ \A f \in ActiveFilters \cap Processed :
            \A i \in 1..Len(ghost.window[f].mag_err) : ghost.window[f].mag_err[i] # Inf)
    => self.ignore_nondetections = TRUE

\* C4: construction leaves the caller's data mapping and arrays as they
\* were (the trigger-time shift is not applied to the caller's time column),
\* and a later change of the caller's data changes no attribute of the
\* likelihood.
C4_CallerDataFrame ==
    /\ [](status # "new" /\ ~mutated => callerData = ghost.data)
    /\ [][(status # "new" /\ callerData' # callerData) => self' = self]_vars

\* a filter with detections was processed under a non-zero trigger time, and
\* the caller has since overwritten a row of its data
C4_Witness ==
    /\ status = "constructed"
    /\ mutated
    /\ self.trigger_time # 0
    /\ \E f \in Processed : Len(self.times_det[f]) > 0

\* the trigger-shifted times of the rows handed in for filter f
ShiftedRaw(f) == [i \in 1..Len(RawRows(f)) |-> RawRows(f)[i].t - self.trigger_time]

\* C7: the rows process_data keeps for a processed filter are exactly the
\* rows whose shifted time t - trigger_time is strictly between tmin and
\* tmax, in their order; rows at tmin, at tmax or outside are left out, and
\* every stored detection or non-detection row is one of the kept rows.
C7_OpenWindow ==
    status # "new" =>
        \A f \in Processed :
            LET w    == ghost.window[f]
                keep == [i \in 1..Len(RawRows(f)) |->
                            self.tmin < ShiftedRaw(f)[i] /\ ShiftedRaw(f)[i] < self.tmax]
            IN  /\ w.times = KeepWhere(ShiftedRaw(f), keep)
                /\ w.mag = KeepWhere(Column(RawRows(f), "m"), keep)
                /\ w.mag_err = KeepWhere(Column(RawRows(f), "e"), keep)
                /\ Pairs(self.times_det[f], self.mag_det[f]) \subseteq Pairs(w.times, w.mag)
                /\ Pairs(self.times_nondet[f], self.mag_nondet[f]) \subseteq Pairs(w.times, w.mag)

\* a processed filter with one row on an edge of the window and one row inside
C7_Witness ==
    /\ status = "constructed"
    /\ \E f \in Processed : \E i, j \in 1..Len(RawRows(f)) :
        /\ ShiftedRaw(f)[i] \in {self.tmin, self.tmax}
        /\ self.tmin < ShiftedRaw(f)[j] /\ ShiftedRaw(f)[j] < self.tmax
        /\ Len(ghost.window[f].times) = 1

\* the magnitudes of the rows kept or stored for filter f (the rows of one
\* array have different magnitudes)
KeptMags(f) ==
    {ghost.window[f].mag[i] : i \in 1..Len(ghost.window[f].mag)}
    \cup {self.mag_det[f][i] : i \in 1..Len(self.mag_det[f])}
    \cup {self.mag_nondet[f][i] : i \in 1..Len(self.mag_nondet[f])}

\* C8 (as claimed): the window is [tmin, tmax): a row whose shifted time is
\* tmin is kept, a row whose shifted time is tmax is left out.
C8_HalfOpenWindow ==
    status # "new" =>
        \A f \in Processed : \A i \in 1..Len(RawRows(f)) :
            /\ ShiftedRaw(f)[i] = self.tmin => RawRows(f)[i].m \in KeptMags(f)
            /\ ShiftedRaw(f)[i] = self.tmax => RawRows(f)[i].m \notin KeptMags(f)

\* C8 (amended): the window is open at both ends: a row whose shifted time
\* is tmin and a row whose shifted time is tmax are both left out of the
\* processed data.
C8_BothEdgesExcluded ==
    status # "new" =>
        \A f \in Processed : \A i \in 1..Len(RawRows(f)) :
            ShiftedRaw(f)[i] \in {self.tmin, self.tmax} => RawRows(f)[i].m \notin KeptMags(f)

\* a processed filter with a row at tmin and a row at tmax
C8_Witness ==
    /\ status = "constructed"
    /\ \E f \in Processed : \E i, j \in 1..Len(RawRows(f)) :
        /\ ShiftedRaw(f)[i] = self.tmin
        /\ ShiftedRaw(f)[j] = self.tmax

Overlap == (DOMAIN ghost.theta) \cap (DOMAIN ghost.fixed)

\* C5: in evaluate, a name that is in theta and in fixed_params reaches the
\* surrogate (and the luminosity distance) with the fixed_params value, a
\* name only in theta keeps its theta value, the overlap raises no error,
\* and the result does not depend on the theta values of the overlapping names.
C5_FixedOverrides ==
    evalOut.status # "none" =>
        /\ DOMAIN evalOut.merged = (DOMAIN ghost.theta) \cup (DOMAIN ghost.fixed)
        /\ \A k \in DOMAIN ghost.fixed : evalOut.merged[k] = ghost.fixed[k]
        /\ \A k \in (DOMAIN ghost.theta) \ (DOMAIN ghost.fixed) :
                evalOut.merged[k] = ghost.theta[k]
        /\ evalOut.status = "KeyError" => ~(ParamNames \subseteq DOMAIN evalOut.merged)
        /\ LET thetaOnly == [k \in (DOMAIN ghost.theta) \ (DOMAIN ghost.fixed) |-> ghost.theta[k]]
           IN  evalOut.result
                 = evaluate(self, thetaOnly, ghost.fixed, args.model_filters).result

\* an evaluation that returned, where theta and fixed_params disagree on the
\* luminosity distance
C5_Witness ==
    /\ evalOut.status = "ok"
    /\ LD \in Overlap
    /\ ghost.theta[LD] # ghost.fixed[LD]
    /\ \E f \in ActiveFilters : Len(self.mag_det[f]) > 0

\* C6: after every evaluate call the caller's theta mapping is what was
\* passed in and fixed_params is what was given at construction.
C6_InputsUntouched ==
    /\ fixed_params = args.fixed_params
    /\ evalOut.status # "none" => theta = ghost.theta /\ ghost.fixed = args.fixed_params

\* an evaluation that returned, with a fixed parameter that theta does not hold
C6_Witness ==
    /\ evalOut.status = "ok"
    /\ (DOMAIN ghost.fixed) \ (DOMAIN ghost.theta) # {}
    /\ Overlap # {}

\* C9: with no detection limit every requested filter gets +infinity, with
\* a scalar every requested filter gets that scalar; get_chisq_filt takes
\* the untruncated formula exactly for a limit of +infinity and the
\* truncated one exactly for a finite limit, so that without a detection
\* limit no filter is evaluated with truncation.
C9_DetectionLimit ==
    status # "new" =>
        /\ args.detection_limit.kind = "none" =>
                self.detection_limit = [f \in Requested |-> Inf]
        /\ args.detection_limit.kind = "scalar" =>
                self.detection_limit = [f \in Requested |-> args.detection_limit.val]
        /\ evalOut.status = "ok" =>
                \A f \in DOMAIN evalOut.branch :
                    /\ evalOut.branch[f] = "compute_chisq" <=> self.detection_limit[f] = Inf
                    /\ evalOut.branch[f] = "compute_chisq_trunc" <=> IsFinite(self.detection_limit[f])
                    /\ args.detection_limit.kind = "none" => evalOut.branch[f] = "compute_chisq"

\* an evaluation over one filter with an infinite and one with a finite limit
C9_Witness ==
    /\ evalOut.status = "ok"
    /\ \E f, g \in DOMAIN evalOut.branch :
        /\ evalOut.branch[f] = "compute_chisq"
        /\ evalOut.branch[g] = "compute_chisq_trunc"
        /\ Len(self.mag_det[f]) > 0
        /\ Len(self.mag_det[g]) > 0

\* C10: evaluate returns the sum over the active filters of the per-filter
\* chi-square terms; the non-detection term is 0, and the result is the same
\* with the non-detection arrays emptied and the flag inverted.
C10_ChisqSumOnly ==
    evalOut.status = "ok" =>
        /\ DOMAIN evalOut.chisq = ActiveFilters
        /\ evalOut.gaussprob_total = 0
        /\ evalOut.result = XSumDict(evalOut.chisq, ActiveFilters)
        /\ LET other == [self EXCEPT
                            !.times_nondet = [f \in DOMAIN @ |-> <<>>],
                            !.mag_nondet = [f \in DOMAIN @ |-> <<>>],
                            !.ignore_nondetections = ~@]
           IN  evalOut.result
                 = evaluate(other, ghost.theta, ghost.fixed, args.model_filters).result

\* an evaluation over two filters, with non-detection rows stored and
\* ignore_nondetections False
C10_Witness ==
    /\ evalOut.status = "ok"
    /\ ~self.ignore_nondetections
    /\ Cardinality(ActiveFilters) = 2
    /\ \E f \in ActiveFilters : Len(self.mag_nondet[f]) > 0
    /\ IsFinite(evalOut.result)
    /\ evalOut.result # 0


\* the orderings of the requested filter list
Reorderings ==
    {l \in ListsUpTo(Requested, Len(ghost.requested)) : Len(l) = Len(ghost.requested)}

\* C11: a likelihood built from the same model, data and settings, with the
\* same filters requested in another order and the same active filter set,
\* gives the same outcome of evaluate(theta), value included.
C11_OrderInvariant ==
    (status = "constructed" /\ evalOut.status # "none") =>
        \A l \in Reorderings :
            LET other == EMLikelihoodInit(l, ghost.data, args) IN
                (~other.raised /\ NamesOf(other.filters) = ActiveFilters) =>
                    LET out == evaluate(other.obj, ghost.theta, ghost.fixed, args.model_filters)
                    IN  /\ out.status = evalOut.status
                        /\ out.result = evalOut.result
                        /\ out.chisq = evalOut.chisq

\* an evaluation that returned a non-zero value over two filters with
\* detections, and the likelihood built from the reversed list has the same
\* active filters
C11_Witness ==
    /\ status = "constructed"
    /\ evalOut.status = "ok"
    /\ evalOut.result # 0
    /\ Len(ghost.requested) = 2
    /\ \A f \in ActiveFilters : Len(self.mag_det[f]) > 0
    /\ LET other == EMLikelihoodInit(<<ghost.requested[2], ghost.requested[1]>>,
                                     ghost.data, args)
       IN  ~other.raised /\ NamesOf(other.filters) = ActiveFilters


\* C12: a scalar error budget b is stored for every requested filter, and
\* for every active filter and every retained detection row the stored sigma
\* has sigma^2 = mag_err^2 + b_f^2 with b_f the budget of that filter, so
\* sigma^2 >= mag_err^2.
C12_CombinedSigma ==
    /\ (status # "new" /\ args.error_budget.kind = "scalar") =>
           /\ DOMAIN self.error_budget = Requested
           /\ \A f \in Requested : self.error_budget[f] = args.error_budget.val
    /\ status = "constructed" =>
           \A f \in ActiveFilters :
               /\ f \in DOMAIN self.sigma2 /\ f \in DOMAIN self.error_budget
               /\ Len(self.sigma2[f]) = Len(self.mag_err[f])
               /\ Len(self.sigma2[f]) = Len(self.mag_det[f])
               /\ \A i \in 1..Len(self.sigma2[f]) :
                      /\ self.sigma2[f][i] = self.mag_err[f][i] * self.mag_err[f][i]
                                             + self.error_budget[f] * self.error_budget[f]
                      /\ self.sigma2[f][i] >= self.mag_err[f][i] * self.mag_err[f][i]

\* a likelihood built with the scalar budget 1 over two requested filters
\* that holds a detection row with a non-zero measurement error
C12_Witness ==
    /\ status = "constructed"
    /\ args.error_budget.kind = "scalar" /\ args.error_budget.val = 1
    /\ Cardinality(Requested) = 2
    /\ \E f \in ActiveFilters :
           /\ Len(self.sigma2[f]) > 0
           /\ self.mag_err[f][1] = 1
           /\ self.sigma2[f][1] = 2


\* C13: every ':' of a data key is replaced by '_' before matching, so when
\* the filter 'X_Y' is requested and the data holds the key 'X:Y', the
\* filter is processed from that entry and stays an active filter.
C13_ColonNormalized ==
    (status # "new" /\ X_Y \in Requested /\ XcY \in DOMAIN ghost.data) =>
        /\ X_Y \in NormalizedKeys
        /\ X_Y \in ActiveFilters
        /\ X_Y \in Processed
        /\ X_Y \in DOMAIN self.mag_det


\* C14: a call of evaluate that returns never returns NaN or +infinity, and
\* whenever one of its per-filter chi-square terms is NaN or +/-infinity the
\* value it returns is -infinity.
C14_NonFiniteIsNegInf ==
    evalOut.status = "ok" =>
        /\ evalOut.result \notin {NaN, Inf}
        /\ (\E f \in DOMAIN evalOut.chisq : ~IsFinite(evalOut.chisq[f])) =>
               evalOut.result = NegInf


\* C15: in a call of evaluate that returns, an active filter with no
\* detection row contributes exactly 0, whichever branch computes its term,
\* and the value returned is the total of the other filters' terms.
C15_EmptyFilterIsZero ==
    evalOut.status = "ok" =>
        \A f \in ActiveFilters :
            Len(self.mag_det[f]) = 0 =>
                /\ evalOut.chisq[f] = 0
                /\ evalOut.result =
                       XAdd(XSumDict(evalOut.chisq, DOMAIN evalOut.chisq \ {f}),
                            evalOut.gaussprob_total)

\* an evaluation over two active filters, one without detection rows, whose
\* term comes from the untruncated branch
C15_Witness ==
    /\ evalOut.status = "ok"
    /\ \E f, g \in ActiveFilters :
           /\ Len(self.mag_det[f]) = 0
           /\ evalOut.branch[f] = "compute_chisq"
           /\ Len(self.mag_det[g]) > 0
           /\ evalOut.result = evalOut.chisq[g]
           /\ evalOut.result # 0

\* the same with the empty filter's term from the truncated branch
C15_WitnessTrunc ==
    /\ evalOut.status = "ok"
    /\ \E f, g \in ActiveFilters :
           /\ Len(self.mag_det[f]) = 0
           /\ evalOut.branch[f] = "compute_chisq_trunc"
           /\ Len(self.mag_det[g]) > 0
           /\ evalOut.result = evalOut.chisq[g]
           /\ evalOut.result # 0


\* C17: constructing EMLikelihood leaves the caller's filter list as it was
\* passed: after the constructor has run, returned or raised, the list still
\* holds every requested filter in the original order.
C17_CallerFiltersFrame ==
    status # "new" => callerFilters = ghost.requested


\* C16: save_model raises ValueError exactly when out_name ends with neither
\* '.pkl' nor '.pickle'; for a name with one of the two endings (the default
\* name included) no ValueError is raised and the serialized model is
\* written to that file.
C16_SaveModelExtension ==
    saved.status # "none" =>
        LET good == EndsWith(saved.out_name, PKL) \/ EndsWith(saved.out_name, PICKLE) IN
            /\ saved.status = "ValueError" <=> ~good
            /\ (good /\ saved.status = "ok") => saved.out_name \in DOMAIN files

\* the TrainState that the k-th train_step call of the run returns
RECURSIVE StateAfter(_)
StateAfter(k) ==
    IF k = 0 THEN targs.state
    ELSE train_step(StateAfter(k - 1), targs.train_X, targs.train_y,
                    targs.val_X, targs.val_y).state

\* C18: train_loop returns, and when it has returned it has made exactly
\* config.nb_epochs calls of train_step, each on the state the call before
\* it returned; the state it returns is the last of these, train_losses and
\* val_losses hold one entry per call in call order (none, and the state as
\* passed, when nb_epochs is 0), and without validation data every entry of
\* val_losses is zero.
C18_TrainLoop ==
    /\ <>(pc = "returned")
    /\ [](pc = "loop" => calls = epoch /\ epoch <= config[NB_EPOCHS])
    /\ [](pc = "returned" =>
            LET n == config[NB_EPOCHS] IN
                /\ calls = n
                /\ Len(train_losses) = n
                /\ Len(val_losses) = n
                /\ state = StateAfter(n)
                /\ n = 0 => state = targs.state
                /\ \A k \in 1..n :
                       LET r == train_step(StateAfter(k - 1), targs.train_X, targs.train_y,
                                           targs.val_X, targs.val_y)
                       IN  /\ train_losses[k] = r.train_loss
                           /\ val_losses[k] = r.val_loss
                /\ targs.val_X.kind = "none" => \A k \in 1..n : val_losses[k] = 0)

\* a run of two epochs without validation data has returned, with non-zero
\* training losses and the weight moved twice
C18_Witness ==
    /\ pc = "returned"
    /\ config[NB_EPOCHS] = 2
    /\ targs.val_X.kind = "none"
    /\ Len(train_losses) = 2 /\ train_losses[1] # 0 /\ train_losses[2] # train_losses[1]
    /\ val_losses = <<0, 0>>
    /\ state.step = 2
    /\ state.params = targs.state.params + 2

\* C19: every serialize call succeeds, with config passed or omitted, leaves
\* the caller's config as it was, and returns the same content as an earlier
\* call made with the same arguments.
C19_SerializeRepeatable ==
    \A k \in 1..Len(serialized) :
        /\ serialized[k].status = "ok"
        /\ serialized[k].before =
               (IF k < Len(serialized) THEN serialized[k + 1].before ELSE config)
        /\ \A j \in 1..(k - 1) :
               serialized[j].passed = serialized[k].passed =>
                   serialized[j].out = serialized[k].out

====
